---------------------------- MODULE Spec2Model ----------------------------
(***************************************************************************)
(* Screen / display-lock coordination layer of the ESP32 firmware          *)
(* (src/esp32/firmware/main): main_task (boot), loop_task (service loop),  *)
(* the LVGL render task's event callbacks, the three screens (loading,     *)
(* standby, launcher) and the display lock.                                *)
(*                                                                         *)
(* Every task has a call stack of frames; the head frame's pc names the    *)
(* source statement the task executes next ("<function>_<line>").  One     *)
(* step of the model is one statement (or a run of statements that touch   *)
(* no shared state) of the source.                                         *)
(***************************************************************************)
EXTENDS Integers, Sequences, FiniteSets, TLC

VARIABLES
    display,               \* app_main: lv_display_get_default() != nullptr
    fatal,                 \* the firmware has panicked (null dereference)
    now,                   \* esp_timer_get_time() / 1000, in ms
    create_failures,       \* lv_*_create calls that returned nullptr although a
                           \* display exists (LVGL out of memory), so far
    am_pc,                 \* app_main: the statement it executes next
    task_created,          \* the tasks that exist (bsp_display_start, xTaskCreate)
    record,                \* the history variables the specification records
                           \* ("pre", "net", "upd"); a history variable takes
                           \* no part in any guard or assignment of the program
    pre,                   \* history: per task, the screen state at handler entry
    lock_owner,            \* task holding the display lock, or "none"
    lock_depth,            \* recursive hold count of the display lock
    stack,                 \* per task: call stack, head = running frame
    mt_pc,                 \* main_task: index of the next statement in MainProg
    system_initialized,    \* main.cpp:35
    button_callbacks,      \* buttonHandler has its PWR/BOOT callbacks set
    loading_screen,        \* loading_screen.cpp:14..19 (pointers: non-null?);
                           \* logo_label and spinner are written by
                           \* loading_screen_init and never read
    message_label,
    progress_bar,
    loading_visible,       \* (spinner_angle, last_spinner_update: only used by
                           \*  loading_screen_update, which has no caller)
    message,               \* text of message_label (message id)
    progress_value,        \* value of progress_bar
    loading_constructions, \* how many times the loading widget tree was begun
    standby_screen,        \* standby_screen.cpp:23..31
    standby_visible,
    last_update,
    standby_constructions, \* how many times the standby widget tree was built
    battery_label,         \* standby_screen.cpp:25, != nullptr
    battery_icon,          \* standby_screen.cpp:26, != nullptr
    launcher_screen,       \* launcher.cpp:12..16
    launcher_visible,
    app_launch_callback,   \* launcher.cpp:15: callback registered?
    launcher_constructions,
    active_screen,         \* the screen last passed to lv_screen_load
    cfg_ssid,              \* history: config_get("wifi_ssid") returned a non-empty
                           \* SSID (line 185)
    cfg_saved,             \* history: the keys config_save was called with during boot
    wifi_connected,        \* history: a wifi_connect call returned true
    fallback_attempts,     \* history: wifi_connect("BE3600", ...) calls
    softap,                \* history: wifi_start_softap was called
    s_i2c_bus_handle,      \* i2c_bus_manager.cpp:7 (0 = nullptr, n = the handle
                           \* of the n-th bus constructed)
    bus,                   \* create_i2c_device: local of line 36
    i2c_ret,               \* value returned by the last i2c_bus_manager call
    bus_attempts,          \* history: calls of i2c_new_master_bus
    bus_made,              \* history: calls of i2c_new_master_bus that succeeded
    dev_adds,              \* history: calls of i2c_master_bus_add_device
    i2c_pre,               \* history: per function, slot and counts at its entry
    upd                    \* history of standby_screen_update: the clock value
                           \* of the last refresh since the last
                           \* standby_screen_show (-1: none)

appVars     == <<am_pc, task_created>>
envVars     == <<display, fatal, now, create_failures, record, appVars>>
lockVars    == <<lock_owner, lock_depth>>
bootVars    == <<mt_pc, system_initialized, button_callbacks>>
loadingVars == <<loading_screen, message_label, progress_bar,
                 loading_visible, message, progress_value, loading_constructions>>
standbyWidgets == <<battery_label, battery_icon>>
standbyVars == <<standby_screen, standby_visible, last_update, standby_constructions,
                 standbyWidgets>>
launcherVars == <<launcher_screen, launcher_visible, app_launch_callback,
                  launcher_constructions>>
netVars     == <<cfg_ssid, cfg_saved, wifi_connected, fallback_attempts, softap>>
i2cVars     == <<s_i2c_bus_handle, bus, i2c_ret, bus_attempts, bus_made, dev_adds,
                 i2c_pre>>
refreshVars == <<upd>>
vars == <<envVars, lockVars, stack, bootVars, loadingVars, standbyVars,
          launcherVars, active_screen, netVars, i2cVars, refreshVars, pre>>

(***************************************************************************)
(* Tasks, bounds and program constants                                     *)
(***************************************************************************)
Tasks == {"boot", "svc", "lvgl"}

\* standby_screen_update refreshes at most once per this many ms.
RefreshIntervalMs == 1000
\* Clock model: the millisecond clock advances in steps of RefreshIntervalMs,
\* up to MaxTicks steps.
MaxTicks == 1
\* Environment model: at most MaxCreateFailures widget creations fail for lack of
\* memory (without a display every screen creation fails).
MaxCreateFailures == 1

\* enum AppType (launcher.h): APP_SMART_RESPONSE = 0, APP_DIFY_XIAOZHI = 1.
APP_SMART_RESPONSE == 0
APP_DIFY_XIAOZHI == 1
\* The AppTypes with a case in the dispatch (main.cpp:58..63).
RegisteredApps == {APP_SMART_RESPONSE, APP_DIFY_XIAOZHI}
\* A launcher with a third button, whose AppType has no case in the dispatch.
ButtonApps_unregistered == RegisteredApps \cup {APP_DIFY_XIAOZHI + 1}
\* The AppTypes the launcher creates a button for (launcher.cpp:88..89): the
\* user data a click on the Launcher carries.
ButtonApps == {APP_SMART_RESPONSE, APP_DIFY_XIAOZHI}

Screens == {"None", "Loading", "Standby", "Launcher", "App0", "App1"}
AppScreen(a) == IF a = APP_SMART_RESPONSE THEN "App0" ELSE "App1"

(***************************************************************************)
(* Call stack                                                              *)
(***************************************************************************)
\* Snapshot of the screen state, taken when an event handler is entered.
Snapshot == [sv |-> standby_visible, lv |-> launcher_visible,
             ldv |-> loading_visible, act |-> active_screen,
             sc |-> standby_screen, lc |-> launcher_screen, ldc |-> loading_screen]
NoPre == [sv |-> FALSE, lv |-> FALSE, ldv |-> FALSE, act |-> "None",
          sc |-> FALSE, lc |-> FALSE, ldc |-> FALSE]

\* i2c_bus_manager history: the slot and the call counts at a function's entry.
I2cSnapshot == [slot |-> s_i2c_bus_handle, attempts |-> bus_attempts, adds |-> dev_adds]
NoI2cPre == [f \in {"get", "create"} |-> [slot |-> 0, attempts |-> 0, adds |-> 0]]

\* standby_screen_update history: no refresh since the last standby_screen_show.
NoUpd == 0 - 1

\* A history variable changes only in a specification that records it.
Rec(h, old, new) == IF h \in record THEN new ELSE old

\* How many times task t holds the display lock.
Depth(t) == IF lock_owner = t THEN lock_depth ELSE 0

Frame(l, b, a) == [pc |-> l, base |-> b, arg |-> a]
Top(t) == Head(stack[t])
\* The statement task t executes next.
Label(t) == Top(t).pc
\* A task is inside an event handler (or a screen function called by main_task).
Busy(t) == Len(stack[t]) > 1
\* May task t run?  Any task that was created may run its next statement at any
\* moment (FreeRTOS preempts); after a panic none runs.
Runnable(t) == ~fatal /\ t \in task_created
\* The statement task t may execute next: Label(t) if Runnable(t), or none.
PC(t) == IF fatal \/ t \notin task_created THEN "-" ELSE stack[t][1].pc
Arg(t) == Top(t).arg

Goto(t, l) == stack' = [stack EXCEPT ![t] = <<[Head(@) EXCEPT !.pc = l]>> \o Tail(@)]
\* Goto l, the frame's value becoming a.
GotoWith(t, l, a) ==
    stack' = [stack EXCEPT ![t] = <<[Head(@) EXCEPT !.pc = l, !.arg = a]>> \o Tail(@)]
\* Call entry with argument a; the caller continues at ret when the callee returns.
Call(t, ret, entry, a) ==
    stack' = [stack EXCEPT ![t] =
                <<Frame(entry, Depth(t), a), [Head(@) EXCEPT !.pc = ret]>> \o Tail(@)]
Return(t) == stack' = [stack EXCEPT ![t] = Tail(@)]
\* An event handler is entered holding the lock base times: a call, and the
\* history records the screen state.
Enter(t, ret, entry, a, base) ==
    /\ stack' = [stack EXCEPT ![t] =
                   <<Frame(entry, base, a), [Head(@) EXCEPT !.pc = ret]>> \o Tail(@)]
    /\ pre' = Rec("pre", pre, [pre EXCEPT ![t] = Snapshot])

(***************************************************************************)
(* Display lock: bsp_display_lock(0) / bsp_display_unlock()                *)
(* timeout 0 = wait forever; the BSP lock is a recursive mutex, so a task  *)
(* that already holds it acquires it again and must release it as often.   *)
(***************************************************************************)
\* lv_obj_create(nullptr) returns nullptr: there is no display, or LVGL is out of
\* memory.
CreateFails ==
    /\ display => create_failures < MaxCreateFailures
    /\ create_failures' = IF display THEN create_failures + 1 ELSE create_failures

bsp_display_lock(t) ==
    /\ lock_owner \in {"none", t}
    /\ lock_owner' = t
    /\ lock_depth' = lock_depth + 1

bsp_display_unlock(t) ==
    /\ lock_owner = t
    /\ lock_depth' = lock_depth - 1
    /\ lock_owner' = IF lock_depth = 1 THEN "none" ELSE t


\* Frames of variables a step leaves alone.
dataVars == <<bootVars, loadingVars, standbyVars, launcherVars, active_screen, netVars, i2cVars, refreshVars>>
OnlyStack == UNCHANGED <<envVars, lockVars, dataVars, pre>>
OnlyStackLock == UNCHANGED <<envVars, dataVars, pre>>

(***************************************************************************)
(* loading_screen.cpp                                                      *)
(***************************************************************************)
\* No clamping.
clamp_percent_identity(value) == value

clamp_percent(value) ==
    IF value < 0 THEN 0 ELSE IF value > 100 THEN 100 ELSE value

\* Number of lv_*_create calls of loading_screen_init (screen, logo, designer,
\* spinner, message, progress bar); each may return nullptr.
LoadingWidgets == 6

\* A failure exit of loading_screen_init that returns without releasing the lock.
loading_screen_init_fail_locked(t) ==
    /\ PC(t) = "loading_screen_init_fail"
    /\ Goto(t, "loading_screen_init_ret")
    /\ OnlyStack

\* Lines 47, 60, 93, 114, 129, 150: the exit of a failed widget creation.
loading_screen_init_fail(t) ==
    /\ PC(t) = "loading_screen_init_fail"
    /\ bsp_display_unlock(t)
    /\ Goto(t, "loading_screen_init_ret")
    /\ OnlyStackLock

loading_screen_init(t) ==
    \/ /\ PC(t) = "loading_screen_init_31"
       /\ IF loading_screen \/ ~display
            THEN Goto(t, "loading_screen_init_ret")
            ELSE Goto(t, "loading_screen_init_43")
       /\ OnlyStack
    \/ /\ PC(t) = "loading_screen_init_43"
       /\ bsp_display_lock(t)
       /\ Goto(t, "loading_screen_init_44")
       /\ OnlyStackLock
    \/ /\ PC(t) = "loading_screen_init_44"
       \* created = number of widgets created before a creation returned nullptr
       /\ \E created \in 0..LoadingWidgets :
            /\ created < LoadingWidgets => create_failures < MaxCreateFailures
            /\ create_failures' =
                 IF created < LoadingWidgets THEN create_failures + 1 ELSE create_failures
            /\ loading_screen' = (created >= 1)
            /\ message_label' = (created >= 5)
            /\ progress_bar' = (created >= 6)
            /\ message' = IF created >= 5 THEN 1 ELSE message
            /\ progress_value' = IF created >= 6 THEN 0 ELSE progress_value
            /\ loading_visible' = IF created >= 6 THEN FALSE ELSE loading_visible
            /\ loading_constructions' =
                 IF created >= 1 THEN loading_constructions + 1 ELSE loading_constructions
            /\ IF created >= 6
                 THEN Goto(t, "loading_screen_init_161")
                 ELSE Goto(t, "loading_screen_init_fail")
       /\ UNCHANGED <<display, fatal, now, record, appVars, lockVars, bootVars, standbyVars,
                      launcherVars, active_screen, netVars, i2cVars, refreshVars, pre>>
    \/ loading_screen_init_fail(t)
    \/ /\ PC(t) = "loading_screen_init_161"
       /\ bsp_display_unlock(t)
       /\ Goto(t, "loading_screen_init_ret")
       /\ OnlyStackLock
    \/ /\ PC(t) = "loading_screen_init_ret"
       /\ Return(t)
       /\ OnlyStack

loading_screen_set_message(t) ==
    \/ /\ PC(t) = "loading_screen_set_message_201"
       /\ IF message_label
            THEN Goto(t, "loading_screen_set_message_202")
            ELSE Goto(t, "loading_screen_set_message_ret")
       /\ OnlyStack
    \/ /\ PC(t) = "loading_screen_set_message_202"
       /\ bsp_display_lock(t)
       /\ Goto(t, "loading_screen_set_message_211")
       /\ OnlyStackLock
    \/ /\ PC(t) = "loading_screen_set_message_211"
       /\ message' = Arg(t)
       /\ Goto(t, "loading_screen_set_message_212")
       /\ UNCHANGED <<envVars, lockVars, bootVars, loading_screen, message_label, progress_bar, loading_constructions, loading_visible, progress_value, standbyVars, launcherVars, active_screen, netVars, i2cVars, refreshVars, pre>>
    \/ /\ PC(t) = "loading_screen_set_message_212"
       /\ bsp_display_unlock(t)
       /\ Goto(t, "loading_screen_set_message_ret")
       /\ OnlyStackLock
    \/ /\ PC(t) = "loading_screen_set_message_ret"
       /\ Return(t)
       /\ OnlyStack

\* Line 219: the lock taken before lv_bar_set_value.
loading_screen_set_progress_219(t) ==
    /\ PC(t) = "loading_screen_set_progress_219"
    /\ bsp_display_lock(t)
    /\ Goto(t, "loading_screen_set_progress_220")
    /\ OnlyStackLock

loading_screen_set_progress(t) ==
    \/ /\ PC(t) = "loading_screen_set_progress_217"
       /\ IF progress_bar
            THEN Goto(t, "loading_screen_set_progress_219")
            ELSE Goto(t, "loading_screen_set_progress_ret")
       /\ OnlyStack
    \/ loading_screen_set_progress_219(t)
    \/ /\ PC(t) = "loading_screen_set_progress_220"
       /\ progress_value' = clamp_percent(Arg(t))
       /\ Goto(t, "loading_screen_set_progress_221")
       /\ UNCHANGED <<envVars, lockVars, bootVars, loading_screen, message_label, progress_bar, loading_constructions, loading_visible, message, standbyVars, launcherVars, active_screen, netVars, i2cVars, refreshVars, pre>>
    \/ /\ PC(t) = "loading_screen_set_progress_221"
       /\ bsp_display_unlock(t)
       /\ Goto(t, "loading_screen_set_progress_ret")
       /\ OnlyStackLock
    \/ /\ PC(t) = "loading_screen_set_progress_ret"
       /\ Return(t)
       /\ OnlyStack

loading_screen_show(t) ==
    \/ /\ PC(t) = "loading_screen_show_167"
       /\ IF ~loading_screen
            THEN Call(t, "loading_screen_show_172", "loading_screen_init_31", 0)
            ELSE Goto(t, "loading_screen_show_172")
       /\ OnlyStack
    \/ /\ PC(t) = "loading_screen_show_172"
       /\ IF ~loading_screen \/ ~display
            THEN Goto(t, "loading_screen_show_ret")
            ELSE Goto(t, "loading_screen_show_183")
       /\ OnlyStack
    \/ /\ PC(t) = "loading_screen_show_183"
       /\ bsp_display_lock(t)
       /\ Goto(t, "loading_screen_show_184")
       /\ OnlyStackLock
    \/ /\ PC(t) = "loading_screen_show_184"
       /\ active_screen' = "Loading"
       /\ loading_visible' = TRUE
       /\ Call(t, "loading_screen_show_190", "loading_screen_set_message_201", 1)
       /\ UNCHANGED <<envVars, lockVars, bootVars, loading_screen, message_label, progress_bar, loading_constructions, message, progress_value,
                      standbyVars, launcherVars, netVars, i2cVars, refreshVars, pre>>
    \/ /\ PC(t) = "loading_screen_show_190"
       /\ Call(t, "loading_screen_show_191", "loading_screen_set_progress_217", 0)
       /\ OnlyStack
    \/ /\ PC(t) = "loading_screen_show_191"
       /\ bsp_display_unlock(t)
       /\ Goto(t, "loading_screen_show_ret")
       /\ OnlyStackLock
    \/ /\ PC(t) = "loading_screen_show_ret"
       /\ Return(t)
       /\ OnlyStack

loading_screen_hide(t) ==
    \/ /\ PC(t) = "loading_screen_hide_197"
       /\ loading_visible' = FALSE
       /\ Goto(t, "loading_screen_hide_ret")
       /\ UNCHANGED <<envVars, lockVars, bootVars, loading_screen, message_label, progress_bar, loading_constructions, message, progress_value, standbyVars, launcherVars, active_screen, netVars, i2cVars, refreshVars, pre>>
    \/ /\ PC(t) = "loading_screen_hide_ret"
       /\ Return(t)
       /\ OnlyStack


(***************************************************************************)
(* standby_screen.cpp                                                      *)
(***************************************************************************)
standby_screen_init(t) ==
    \/ /\ PC(t) = "standby_screen_init_42"
       /\ IF standby_screen
            THEN Goto(t, "standby_screen_init_ret")
            ELSE Goto(t, "standby_screen_init_46")
       /\ OnlyStack
    \/ /\ PC(t) = "standby_screen_init_46"
       /\ bsp_display_lock(t)
       /\ Goto(t, "standby_screen_init_47")
       /\ OnlyStackLock
    \/ /\ PC(t) = "standby_screen_init_47"
       \* line 47: standby_screen = lv_obj_create(nullptr), the screen (only with
       \* a display) or nullptr; the result is stored untested
       /\ \/ /\ display
             /\ standby_screen' = TRUE
             /\ standby_constructions' = standby_constructions + 1
             /\ UNCHANGED create_failures
          \/ /\ CreateFails
             /\ standby_screen' = FALSE
             /\ UNCHANGED standby_constructions
       /\ Goto(t, "standby_screen_init_49")
       /\ UNCHANGED <<display, fatal, now, record, appVars, lockVars, bootVars, loadingVars,
                      standby_visible, last_update, standbyWidgets, launcherVars,
                      active_screen, netVars, i2cVars, refreshVars, pre>>
    \/ /\ PC(t) = "standby_screen_init_49"
       \* lines 49..88: the event callbacks and the widgets (lv_label_create at
       \* lines 54, 60, 66, 80, icon_create at 87, 88) are put on the screen.  No
       \* pointer is tested: a null screen, or a label whose creation returned
       \* nullptr, is passed on to LVGL, which ignores it or dereferences it, and
       \* then the firmware panics with the lock held, the statics assigned by
       \* the later lines left as they were; the result of icon_create is stored
       \* and not used here
       /\ \/ /\ standby_screen
             /\ \/ /\ battery_label' = TRUE
                   /\ battery_icon' = TRUE
                   /\ Goto(t, "standby_screen_init_90")
                   /\ UNCHANGED <<create_failures, fatal>>
                \/ \* the creation of time_label, date_label or status_label
                   \* (line 54, 60, 66) returns nullptr; a panic (lines 55..76)
                   \* precedes the assignments of lines 80 and 87
                   /\ CreateFails
                   /\ \/ /\ battery_label' = TRUE
                         /\ battery_icon' = TRUE
                         /\ Goto(t, "standby_screen_init_90")
                         /\ UNCHANGED fatal
                      \/ /\ fatal' = TRUE
                         /\ UNCHANGED <<stack, battery_label, battery_icon>>
                \/ \* the creation of battery_label (line 80) returns nullptr; a
                   \* panic (lines 81..84) precedes the assignment of line 87
                   /\ CreateFails
                   /\ battery_label' = FALSE
                   /\ \/ /\ battery_icon' = TRUE
                         /\ Goto(t, "standby_screen_init_90")
                         /\ UNCHANGED fatal
                      \/ /\ fatal' = TRUE
                         /\ UNCHANGED <<stack, battery_icon>>
                \/ \* icon_create returns nullptr (battery_icon, line 87, or
                   \* wifi_icon, line 88)
                   /\ CreateFails
                   /\ battery_label' = TRUE
                   /\ battery_icon' \in BOOLEAN
                   /\ Goto(t, "standby_screen_init_90")
                   /\ UNCHANGED fatal
          \/ /\ ~standby_screen
             /\ UNCHANGED create_failures
             /\ \/ /\ battery_label' = FALSE
                   /\ battery_icon' = FALSE
                   /\ Goto(t, "standby_screen_init_90")
                   /\ UNCHANGED fatal
                \/ \* a panic at lines 48..52 precedes every assignment
                   /\ fatal' = TRUE
                   /\ UNCHANGED <<stack, battery_label, battery_icon>>
       /\ UNCHANGED <<display, now, record, appVars, lockVars, bootVars, loadingVars,
                      standby_screen, standby_visible, last_update,
                      standby_constructions, launcherVars, active_screen, netVars,
                      i2cVars, refreshVars, pre>>
    \/ /\ PC(t) = "standby_screen_init_90"
       /\ standby_visible' = FALSE
       /\ Goto(t, "standby_screen_init_92")
       /\ UNCHANGED <<envVars, lockVars, bootVars, loadingVars, standby_screen,
                      last_update, standby_constructions, standbyWidgets, launcherVars,
                      active_screen, netVars, i2cVars, refreshVars, pre>>
    \/ /\ PC(t) = "standby_screen_init_92"
       /\ bsp_display_unlock(t)
       /\ Goto(t, "standby_screen_init_ret")
       /\ OnlyStackLock
    \/ /\ PC(t) = "standby_screen_init_ret"
       /\ Return(t)
       /\ OnlyStack

\* Lines 120..121: current_time = esp_timer_get_time() / 1000, a local, and the
\* test of the refresh interval against last_update.
standby_screen_update_120(t) ==
    /\ PC(t) = "standby_screen_update_120"
    /\ IF now - last_update < RefreshIntervalMs
         THEN Goto(t, "standby_screen_update_ret")
         ELSE GotoWith(t, "standby_screen_update_124", now)
    /\ OnlyStack

standby_screen_update(t) ==
    \/ /\ PC(t) = "standby_screen_update_116"
       /\ IF ~standby_visible \/ ~standby_screen
            THEN Goto(t, "standby_screen_update_ret")
            ELSE Goto(t, "standby_screen_update_120")
       /\ OnlyStack
    \/ standby_screen_update_120(t)
    \/ /\ PC(t) = "standby_screen_update_124"
       \* last_update = current_time
       /\ last_update' = Arg(t)
       /\ Goto(t, "standby_screen_update_126")
       /\ UNCHANGED <<envVars, lockVars, bootVars, loadingVars, standby_screen,
                      standby_visible, standby_constructions, standbyWidgets,
                      launcherVars, active_screen, netVars, i2cVars, refreshVars, pre>>
    \/ /\ PC(t) = "standby_screen_update_126"
       /\ bsp_display_lock(t)
       /\ Goto(t, "standby_screen_update_127")
       /\ OnlyStackLock
    \/ /\ PC(t) = "standby_screen_update_127"
       \* lines 127..186: the label texts and icons are rewritten, each behind a
       \* test of its pointer, except battery_icon, which is passed to
       \* icon_set_type behind the test of battery_label (lines 138..158): a null
       \* icon is ignored, or dereferenced, and the firmware panics with the lock
       \* held
       /\ \/ /\ Goto(t, "standby_screen_update_187")
             /\ upd' = Rec("upd", upd, Arg(t))
             /\ UNCHANGED fatal
          \/ /\ battery_label /\ ~battery_icon
             /\ fatal' = TRUE
             /\ UNCHANGED <<stack, upd>>
       /\ UNCHANGED <<display, now, create_failures, record, appVars, lockVars,
                      bootVars, loadingVars, standbyVars, launcherVars,
                      active_screen, netVars, i2cVars, pre>>
    \/ /\ PC(t) = "standby_screen_update_187"
       /\ bsp_display_unlock(t)
       /\ Goto(t, "standby_screen_update_ret")
       /\ OnlyStackLock
    \/ /\ PC(t) = "standby_screen_update_ret"
       /\ Return(t)
       /\ OnlyStack

standby_screen_show(t) ==
    \/ /\ PC(t) = "standby_screen_show_96"
       /\ IF ~standby_screen
            THEN Call(t, "standby_screen_show_100", "standby_screen_init_42", 0)
            ELSE Goto(t, "standby_screen_show_100")
       /\ OnlyStack
    \/ /\ PC(t) = "standby_screen_show_100"
       /\ bsp_display_lock(t)
       /\ Goto(t, "standby_screen_show_101")
       /\ OnlyStackLock
    \/ /\ PC(t) = "standby_screen_show_101"
       \* lv_screen_load(standby_screen): the screen is loaded; a null pointer
       \* (the creation failed) is ignored by LVGL, or dereferenced, and the
       \* firmware panics
       /\ \/ /\ active_screen' = IF standby_screen THEN "Standby" ELSE active_screen
             /\ Goto(t, "standby_screen_show_102")
             /\ UNCHANGED fatal
          \/ /\ ~standby_screen
             /\ fatal' = TRUE
             /\ UNCHANGED <<active_screen, stack>>
       /\ UNCHANGED <<display, now, create_failures, record, appVars, lockVars, bootVars,
                      loadingVars, standbyVars, launcherVars, netVars, i2cVars,
                      refreshVars, pre>>
    \/ /\ PC(t) = "standby_screen_show_102"
       /\ bsp_display_unlock(t)
       /\ Goto(t, "standby_screen_show_103")
       /\ OnlyStackLock
    \/ /\ PC(t) = "standby_screen_show_103"
       /\ standby_visible' = TRUE
       /\ last_update' = 0
       /\ upd' = Rec("upd", upd, NoUpd)
       /\ Call(t, "standby_screen_show_ret", "standby_screen_update_116", 0)
       /\ UNCHANGED <<envVars, lockVars, bootVars, loadingVars, standby_screen,
                      standby_constructions, standbyWidgets, launcherVars, active_screen, netVars, i2cVars, pre>>
    \/ /\ PC(t) = "standby_screen_show_ret"
       /\ Return(t)
       /\ OnlyStack

standby_screen_hide(t) ==
    \/ /\ PC(t) = "standby_screen_hide_111"
       /\ standby_visible' = FALSE
       /\ Goto(t, "standby_screen_hide_ret")
       /\ UNCHANGED <<envVars, lockVars, bootVars, loadingVars, standby_screen,
                      last_update, standby_constructions, standbyWidgets, launcherVars,
                      active_screen, netVars, i2cVars, refreshVars, pre>>
    \/ /\ PC(t) = "standby_screen_hide_ret"
       /\ Return(t)
       /\ OnlyStack

standby_touch_event_cb(t) ==
    \/ /\ PC(t) = "standby_touch_event_cb_36"
       /\ Call(t, "standby_touch_event_cb_37", "standby_screen_hide_111", 0)
       /\ OnlyStack
    \/ /\ PC(t) = "standby_touch_event_cb_37"
       /\ Call(t, "standby_touch_event_cb_ret", "launcher_show_96", 0)
       /\ OnlyStack
    \/ /\ PC(t) = "standby_touch_event_cb_ret"
       /\ Return(t)
       /\ OnlyStack

(***************************************************************************)
(* launcher.cpp                                                            *)
(***************************************************************************)
\* Lines 61..63: nothing to do when the launcher is constructed.
launcher_init_61(t) ==
    /\ PC(t) = "launcher_init_61"
    /\ IF launcher_screen
         THEN Goto(t, "launcher_init_ret")
         ELSE Goto(t, "launcher_init_65")
    /\ OnlyStack

launcher_init(t) ==
    \/ launcher_init_61(t)
    \/ /\ PC(t) = "launcher_init_65"
       /\ bsp_display_lock(t)
       /\ Goto(t, "launcher_init_66")
       /\ OnlyStackLock
    \/ /\ PC(t) = "launcher_init_66"
       \* line 66: launcher_screen = lv_obj_create(nullptr), the screen (only with
       \* a display) or nullptr; the result is stored untested
       /\ \/ /\ display
             /\ launcher_screen' = TRUE
             /\ launcher_constructions' = launcher_constructions + 1
             /\ UNCHANGED create_failures
          \/ /\ CreateFails
             /\ launcher_screen' = FALSE
             /\ UNCHANGED launcher_constructions
       /\ Goto(t, "launcher_init_68")
       /\ UNCHANGED <<display, fatal, now, record, appVars, lockVars, bootVars, loadingVars,
                      standbyVars, launcher_visible, app_launch_callback,
                      active_screen, netVars, i2cVars, refreshVars, pre>>
    \/ /\ PC(t) = "launcher_init_68"
       \* lines 68..89: the title (lv_label_create at line 71) and the two
       \* application buttons (create_app_button, lines 34..56) are put on the
       \* screen.  No pointer is tested: a null screen, or a widget whose creation
       \* returned nullptr, is passed on to LVGL, which ignores it or
       \* dereferences it, and then the firmware panics with the lock held
       /\ \/ /\ launcher_screen
             /\ Goto(t, "launcher_init_91")
             /\ UNCHANGED <<create_failures, fatal>>
          \/ /\ launcher_screen
             /\ CreateFails
             /\ \/ Goto(t, "launcher_init_91") /\ UNCHANGED fatal
                \/ fatal' = TRUE /\ UNCHANGED stack
          \/ /\ ~launcher_screen
             /\ UNCHANGED create_failures
             /\ \/ Goto(t, "launcher_init_91") /\ UNCHANGED fatal
                \/ fatal' = TRUE /\ UNCHANGED stack
       /\ UNCHANGED <<display, now, record, appVars, lockVars, dataVars, pre>>
    \/ /\ PC(t) = "launcher_init_91"
       /\ launcher_visible' = FALSE
       /\ Goto(t, "launcher_init_92")
       /\ UNCHANGED <<envVars, lockVars, bootVars, loadingVars, standbyVars,
                      launcher_screen, app_launch_callback, launcher_constructions,
                      active_screen, netVars, i2cVars, refreshVars, pre>>
    \/ /\ PC(t) = "launcher_init_92"
       /\ bsp_display_unlock(t)
       /\ Goto(t, "launcher_init_ret")
       /\ OnlyStackLock
    \/ /\ PC(t) = "launcher_init_ret"
       /\ Return(t)
       /\ OnlyStack

\* launcher_show without its acquisition at line 100.
launcher_show_100_unlocked(t) ==
    /\ PC(t) = "launcher_show_100"
    /\ Goto(t, "launcher_show_101")
    /\ OnlyStack

\* Line 100: the lock taken before lv_screen_load.
launcher_show_100(t) ==
    /\ PC(t) = "launcher_show_100"
    /\ bsp_display_lock(t)
    /\ Goto(t, "launcher_show_101")
    /\ OnlyStackLock

launcher_show(t) ==
    \/ /\ PC(t) = "launcher_show_96"
       /\ IF ~launcher_screen
            THEN Call(t, "launcher_show_100", "launcher_init_61", 0)
            ELSE Goto(t, "launcher_show_100")
       /\ OnlyStack
    \/ launcher_show_100(t)
    \/ /\ PC(t) = "launcher_show_101"
       \* lv_screen_load(launcher_screen): the screen is loaded; a null pointer
       \* (the creation failed) is ignored by LVGL, or dereferenced, and the
       \* firmware panics
       /\ \/ /\ active_screen' = IF launcher_screen THEN "Launcher" ELSE active_screen
             /\ Goto(t, "launcher_show_102")
             /\ UNCHANGED fatal
          \/ /\ ~launcher_screen
             /\ fatal' = TRUE
             /\ UNCHANGED <<active_screen, stack>>
       /\ UNCHANGED <<display, now, create_failures, record, appVars, lockVars, bootVars,
                      loadingVars, standbyVars, launcherVars, netVars, i2cVars,
                      refreshVars, pre>>
    \/ /\ PC(t) = "launcher_show_102"
       /\ bsp_display_unlock(t)
       /\ Goto(t, "launcher_show_103")
       /\ OnlyStackLock
    \/ /\ PC(t) = "launcher_show_103"
       /\ launcher_visible' = TRUE
       /\ Goto(t, "launcher_show_ret")
       /\ UNCHANGED <<envVars, lockVars, bootVars, loadingVars, standbyVars,
                      launcher_screen, app_launch_callback, launcher_constructions,
                      active_screen, netVars, i2cVars, refreshVars, pre>>
    \/ /\ PC(t) = "launcher_show_ret"
       /\ Return(t)
       /\ OnlyStack

launcher_hide(t) ==
    \/ /\ PC(t) = "launcher_hide_108"
       /\ launcher_visible' = FALSE
       /\ Call(t, "launcher_hide_ret", "standby_screen_show_96", 0)
       /\ UNCHANGED <<envVars, lockVars, bootVars, loadingVars, standbyVars,
                      launcher_screen, app_launch_callback, launcher_constructions,
                      active_screen, netVars, i2cVars, refreshVars, pre>>
    \/ /\ PC(t) = "launcher_hide_ret"
       /\ Return(t)
       /\ OnlyStack

app_btn_event_cb(t) ==
    \/ /\ PC(t) = "app_btn_event_cb_25"
       /\ IF app_launch_callback
            THEN Call(t, "app_btn_event_cb_29", "app_launch_callback_57", Arg(t))
            ELSE Goto(t, "app_btn_event_cb_29")
       /\ OnlyStack
    \/ /\ PC(t) = "app_btn_event_cb_29"
       /\ Call(t, "app_btn_event_cb_ret", "launcher_hide_108", 0)
       /\ OnlyStack
    \/ /\ PC(t) = "app_btn_event_cb_ret"
       /\ Return(t)
       /\ OnlyStack


(***************************************************************************)
(* main.cpp: callbacks                                                     *)
(***************************************************************************)
\* smart_response_app_show / dify_app_show (apps/*.cpp): show(Application(id)) takes
\* the display lock, activates the application's screen, marks it running and
\* releases the lock.
app_show(t) ==
    \/ /\ PC(t) = "app_show"
       /\ lock_owner \in {"none", t}
       /\ active_screen' = AppScreen(Arg(t))
       /\ Goto(t, "app_show_ret")
       /\ UNCHANGED <<envVars, lockVars, bootVars, loadingVars, standbyVars,
                      launcherVars, netVars, i2cVars, refreshVars, pre>>
    \/ /\ PC(t) = "app_show_ret"
       /\ Return(t)
       /\ OnlyStack

\* Lines 57..66: the switch over app_type.
app_launch_callback_57(t) ==
    /\ PC(t) = "app_launch_callback_57"
    /\ IF Arg(t) \in {APP_SMART_RESPONSE, APP_DIFY_XIAOZHI}
         THEN Call(t, "app_launch_callback_ret", "app_show", Arg(t))
         ELSE Goto(t, "app_launch_callback_ret")
    /\ OnlyStack

main_app_launch_callback(t) ==
    \/ app_launch_callback_57(t)
    \/ /\ PC(t) = "app_launch_callback_ret"
       /\ Return(t)
       /\ OnlyStack

pwr_button_callback_39(t) ==
    /\ PC(t) = "pwr_button_callback_39"
    /\ IF standby_visible
         THEN Call(t, "pwr_button_callback_ret", "launcher_show_96", 0)
         ELSE IF launcher_visible
                THEN Call(t, "pwr_button_callback_ret", "launcher_hide_108", 0)
                ELSE Goto(t, "pwr_button_callback_ret")
    /\ OnlyStack

pwr_button_callback(t) ==
    \/ pwr_button_callback_39(t)
    \/ /\ PC(t) = "pwr_button_callback_ret"
       /\ Return(t)
       /\ OnlyStack

\* A BOOT callback that tests the flags in the order of the PWR callback.
boot_button_callback_48_standby_first(t) ==
    /\ PC(t) = "boot_button_callback_48"
    /\ IF standby_visible
         THEN Call(t, "boot_button_callback_ret", "launcher_show_96", 0)
         ELSE IF launcher_visible
                THEN Call(t, "boot_button_callback_ret", "launcher_hide_108", 0)
                ELSE Goto(t, "boot_button_callback_ret")
    /\ OnlyStack

\* Lines 48..52.
boot_button_callback_48(t) ==
    /\ PC(t) = "boot_button_callback_48"
    /\ IF launcher_visible
         THEN Call(t, "boot_button_callback_ret", "launcher_hide_108", 0)
         ELSE IF standby_visible
                THEN Call(t, "boot_button_callback_ret", "launcher_show_96", 0)
                ELSE Goto(t, "boot_button_callback_ret")
    /\ OnlyStack

boot_button_callback(t) ==
    \/ boot_button_callback_48(t)
    \/ /\ PC(t) = "boot_button_callback_ret"
       /\ Return(t)
       /\ OnlyStack

(***************************************************************************)
(* main.cpp: main_task, as the list of its statements                      *)
(* op: "ext" a delay or an external subsystem call whose result only is    *)
(* logged; "lock"/"unlock" the display lock; "call" a screen function with *)
(* its argument (percent, or message id); the others see main_task below.  *)
(* Message ids: 1 the default text (loading_screen.cpp:140, 189), 2..8 the *)
(* texts of main.cpp:117, 147, 157, 167, 175, 183, 214.                    *)
(***************************************************************************)
\* A boot that reports its progress counting down.
I_countdown(op, fn, arg, line) ==
    [op |-> op, fn |-> fn, line |-> line,
     arg |-> IF fn = "loading_screen_set_progress_217" THEN 100 - arg ELSE arg]

I(op, fn, arg, line) == [op |-> op, fn |-> fn, arg |-> arg, line |-> line]

MainProg ==
    << I("ext", "", 0, 80),
       I("ext", "", 0, 84),
       I("ext", "", 0, 101),
       I("call", "loading_screen_init_31", 0, 105),
       I("lock", "", 0, 109),
       I("call", "loading_screen_show_167", 0, 110),
       I("unlock", "", 0, 111),
       I("ext", "", 0, 115),
       I("lock", "", 0, 116),
       I("call", "loading_screen_set_message_201", 2, 117),
       I("call", "loading_screen_set_progress_217", 10, 118),
       I("unlock", "", 0, 119),
       I("buttons", "", 0, 121),
       I("lock", "", 0, 124),
       I("call", "loading_screen_set_progress_217", 20, 125),
       I("unlock", "", 0, 126),
       I("lock", "", 0, 128),
       I("call", "loading_screen_set_progress_217", 30, 129),
       I("unlock", "", 0, 130),
       I("ext", "", 0, 132),
       I("lock", "", 0, 135),
       I("call", "loading_screen_set_progress_217", 40, 136),
       I("unlock", "", 0, 137),
       I("ext", "", 0, 139),
       I("lock", "", 0, 142),
       I("call", "loading_screen_set_progress_217", 50, 143),
       I("unlock", "", 0, 144),
       I("lock", "", 0, 146),
       I("call", "loading_screen_set_message_201", 3, 147),
       I("unlock", "", 0, 148),
       I("ext", "", 0, 149),
       I("lock", "", 0, 152),
       I("call", "loading_screen_set_progress_217", 55, 153),
       I("unlock", "", 0, 154),
       I("lock", "", 0, 156),
       I("call", "loading_screen_set_message_201", 4, 157),
       I("unlock", "", 0, 158),
       I("ext", "", 0, 159),
       I("lock", "", 0, 162),
       I("call", "loading_screen_set_progress_217", 60, 163),
       I("unlock", "", 0, 164),
       I("lock", "", 0, 166),
       I("call", "loading_screen_set_message_201", 5, 167),
       I("unlock", "", 0, 168),
       I("ext", "", 0, 169),
       I("lock", "", 0, 170),
       I("call", "loading_screen_set_progress_217", 70, 171),
       I("unlock", "", 0, 172),
       I("lock", "", 0, 174),
       I("call", "loading_screen_set_message_201", 6, 175),
       I("unlock", "", 0, 176),
       I("ext", "", 0, 177),
       I("lock", "", 0, 178),
       I("call", "loading_screen_set_progress_217", 80, 179),
       I("unlock", "", 0, 180),
       I("lock", "", 0, 182),
       I("call", "loading_screen_set_message_201", 7, 183),
       I("unlock", "", 0, 184),
       I("wifi", "", 0, 185),
       I("connect", "", 0, 191),
       I("fallback", "", 0, 195),
       I("save", "wifi_ssid", 0, 198),
       I("save", "wifi_password", 0, 199),
       I("softap", "", 0, 203),
       I("lock", "", 0, 207),
       I("call", "loading_screen_set_progress_217", 90, 208),
       I("unlock", "", 0, 209),
       I("set_cb", "", 0, 211),
       I("lock", "", 0, 212),
       I("call", "loading_screen_set_progress_217", 100, 213),
       I("call", "loading_screen_set_message_201", 8, 214),
       I("unlock", "", 0, 215),
       I("ext", "", 0, 216),
       I("lock", "", 0, 217),
       I("call", "loading_screen_hide_197", 0, 218),
       I("call", "standby_screen_show_96", 0, 219),
       I("unlock", "", 0, 220),
       I("ready", "", 0, 225),
       I("idle", "", 0, 231) >>

Ins == MainProg[mt_pc]
\* The index of the statement of main_task at a source line.
At(line) == CHOOSE i \in 1..Len(MainProg) : MainProg[i].line = line

\* A delay, or the initialisation of a subsystem (font manager, RTC, motion sensor,
\* SD storage, audio, configuration): it succeeds or fails, a failure is logged
\* and the boot continues.
main_task_ext(t) ==
    /\ Ins.op = "ext"
    /\ \E ok \in BOOLEAN : mt_pc' = mt_pc + 1
    /\ UNCHANGED <<envVars, lockVars, stack, system_initialized, button_callbacks,
                   loadingVars, standbyVars, launcherVars, active_screen, netVars, i2cVars, refreshVars, pre>>

\* The keys main_task writes with config_save (lines 198, 199).
WifiKeys == {"wifi_ssid", "wifi_password"}

\* Lines 185..188: config_get("wifi_ssid", "") returns the persisted SSID or the
\* empty string; the branch on ssid.length() > 0.
main_task_185(t) ==
    /\ Ins.op = "wifi"
    /\ \E present \in BOOLEAN :
         /\ cfg_ssid' = Rec("net", cfg_ssid, present)
         /\ mt_pc' = IF present THEN At(191) ELSE At(195)
    /\ UNCHANGED <<envVars, lockVars, stack, system_initialized, button_callbacks,
                   loadingVars, standbyVars, launcherVars, active_screen,
                   cfg_saved, wifi_connected, fallback_attempts, softap, i2cVars, refreshVars, pre>>

\* Line 191: wifi_connect(ssid, password); its result is discarded.
main_task_191(t) ==
    /\ Ins.op = "connect"
    /\ \E ok \in BOOLEAN : wifi_connected' = Rec("net", wifi_connected, ok)
    /\ mt_pc' = At(207)
    /\ UNCHANGED <<envVars, lockVars, stack, system_initialized, button_callbacks,
                   loadingVars, standbyVars, launcherVars, active_screen,
                   cfg_ssid, cfg_saved, fallback_attempts, softap, i2cVars, refreshVars, pre>>

\* A boot that stores the default network whether or not it was joined.
main_task_195_save_always(t) ==
    /\ Ins.op = "fallback"
    /\ fallback_attempts' = Rec("net", fallback_attempts, fallback_attempts + 1)
    /\ \E ok \in BOOLEAN : wifi_connected' = Rec("net", wifi_connected, ok)
    /\ mt_pc' = At(198)
    /\ UNCHANGED <<envVars, lockVars, stack, system_initialized, button_callbacks,
                   loadingVars, standbyVars, launcherVars, active_screen,
                   cfg_ssid, cfg_saved, softap, i2cVars, refreshVars, pre>>

\* Line 195: if (wifi_connect("BE3600", "19930101"))
main_task_195(t) ==
    /\ Ins.op = "fallback"
    /\ fallback_attempts' = Rec("net", fallback_attempts, fallback_attempts + 1)
    /\ \E ok \in BOOLEAN :
         /\ wifi_connected' = Rec("net", wifi_connected, ok)
         /\ mt_pc' = IF ok THEN At(198) ELSE At(203)
    /\ UNCHANGED <<envVars, lockVars, stack, system_initialized, button_callbacks,
                   loadingVars, standbyVars, launcherVars, active_screen,
                   cfg_ssid, cfg_saved, softap, i2cVars, refreshVars, pre>>

\* Lines 198 and 199: config_save("wifi_ssid", ...), config_save("wifi_password",
\* ...); the else branch of line 200 is skipped after the second.
main_task_198(t) ==
    /\ Ins.op = "save"
    /\ cfg_saved' = Rec("net", cfg_saved, cfg_saved \cup {Ins.fn})
    /\ mt_pc' = IF Ins.line = 199 THEN At(207) ELSE mt_pc + 1
    /\ UNCHANGED <<envVars, lockVars, stack, system_initialized, button_callbacks,
                   loadingVars, standbyVars, launcherVars, active_screen,
                   cfg_ssid, wifi_connected, fallback_attempts, softap, i2cVars, refreshVars, pre>>

\* Line 203: wifi_start_softap()
main_task_203(t) ==
    /\ Ins.op = "softap"
    /\ softap' = Rec("net", softap, TRUE)
    /\ mt_pc' = mt_pc + 1
    /\ UNCHANGED <<envVars, lockVars, stack, system_initialized, button_callbacks,
                   loadingVars, standbyVars, launcherVars, active_screen,
                   cfg_ssid, cfg_saved, wifi_connected, fallback_attempts, i2cVars, refreshVars, pre>>

\* Lines 192..205, the branch without a persisted SSID: the default network is
\* tried once (195); when wifi_connect returns true the two keys are saved
\* (198, 199), otherwise wifi_start_softap is called (203).  Each call is a
\* statement of its own.
main_task_192(t) ==
    \/ main_task_195(t)
    \/ main_task_198(t)
    \/ main_task_203(t)

\* A boot that does not register the launch callback.
main_task_211_skip(t) ==
    /\ Ins.op = "set_cb"
    /\ mt_pc' = mt_pc + 1
    /\ UNCHANGED <<envVars, lockVars, stack, system_initialized, button_callbacks,
                   loadingVars, standbyVars, launcherVars, active_screen, netVars, i2cVars, refreshVars, pre>>

\* Line 211: launcher_set_app_launch_callback(app_launch_callback)
\* (launcher.cpp:113..115: app_launch_callback = callback).
main_task_211(t) ==
    /\ Ins.op = "set_cb"
    /\ app_launch_callback' = TRUE
    /\ mt_pc' = mt_pc + 1
    /\ UNCHANGED <<envVars, lockVars, stack, system_initialized, button_callbacks,
                   loadingVars, standbyVars, launcher_screen, launcher_visible,
                   launcher_constructions, active_screen, netVars,
                   i2cVars, refreshVars, pre>>

main_task(t) ==
    /\ t = "boot"
    /\ PC(t) = "main_task"
    /\ \/ main_task_ext(t)
       \/ /\ Ins.op = "lock"
          /\ bsp_display_lock(t)
          /\ mt_pc' = mt_pc + 1
          /\ UNCHANGED <<envVars, stack, system_initialized, button_callbacks,
                         loadingVars, standbyVars, launcherVars, active_screen, netVars, i2cVars, refreshVars, pre>>
       \/ /\ Ins.op = "unlock"
          /\ bsp_display_unlock(t)
          /\ mt_pc' = mt_pc + 1
          /\ UNCHANGED <<envVars, stack, system_initialized, button_callbacks,
                         loadingVars, standbyVars, launcherVars, active_screen, netVars, i2cVars, refreshVars, pre>>
       \/ /\ Ins.op = "call"
          /\ Call(t, "main_task", Ins.fn, Ins.arg)
          /\ mt_pc' = mt_pc + 1
          /\ UNCHANGED <<envVars, lockVars, system_initialized, button_callbacks,
                         loadingVars, standbyVars, launcherVars, active_screen, netVars, i2cVars, refreshVars, pre>>
       \/ /\ Ins.op = "buttons"      \* lines 121..123
          /\ button_callbacks' = TRUE
          /\ mt_pc' = mt_pc + 1
          /\ UNCHANGED <<envVars, lockVars, stack, system_initialized,
                         loadingVars, standbyVars, launcherVars, active_screen, netVars, i2cVars, refreshVars, pre>>
       \/ main_task_185(t)
       \/ main_task_191(t)
       \/ main_task_192(t)
       \/ main_task_211(t)
       \/ /\ Ins.op = "ready"        \* line 225
          /\ system_initialized' = TRUE
          /\ mt_pc' = mt_pc + 1
          /\ UNCHANGED <<envVars, lockVars, stack, button_callbacks,
                         loadingVars, standbyVars, launcherVars, active_screen, netVars, i2cVars, refreshVars, pre>>
       \/ /\ Ins.op = "idle"         \* lines 231..234: while (1) vTaskDelay
          /\ UNCHANGED vars


(***************************************************************************)
(* main.cpp: loop_task                                                     *)
(***************************************************************************)
\* A service loop that does not wait for the readiness flag.
loop_task_243_no_wait(t) ==
    /\ PC(t) = "loop_task_243"
    /\ Goto(t, "loop_task_254")
    /\ OnlyStack

\* Lines 243..246: the readiness check at the head of every cycle.
loop_task_243(t) ==
    /\ PC(t) = "loop_task_243"
    /\ IF ~system_initialized
         THEN UNCHANGED stack                \* vTaskDelay(100); continue
         ELSE Goto(t, "loop_task_254")
    /\ OnlyStack

\* buttonHandler.handleButtons() (button_handler.cpp): polls the two buttons and
\* calls the registered callback of a button whose press edge it sees.
handleButtons(t) ==
    /\ PC(t) = "loop_task_254"
    /\ \/ Goto(t, "loop_task_259") /\ UNCHANGED pre
       \/ /\ button_callbacks
          /\ Enter(t, "loop_task_259", "pwr_button_callback_39", 0, 0)
       \/ /\ button_callbacks
          /\ Enter(t, "loop_task_259", "boot_button_callback_48", 0, 0)
    /\ UNCHANGED <<envVars, lockVars, dataVars>>

\* if (*_app_is_running()): the call returns running; the statement executed
\* next is the update when it returned true, and the statement after the if
\* otherwise.  The frame of loop_task keeps the value returned (1 = true) while
\* the update is about to run.
app_is_running(t, update, next) ==
    /\ \E running \in BOOLEAN :
         IF running THEN GotoWith(t, update, 1) ELSE GotoWith(t, next, 0)
    /\ OnlyStack

\* An application updated whether or not it reports running.
loop_task_269_always(t) ==
    /\ PC(t) = "loop_task_269"
    /\ \E running \in BOOLEAN :
         GotoWith(t, "loop_task_270", IF running THEN 1 ELSE 0)
    /\ OnlyStack

\* Line 266: if (smart_response_app_is_running())
loop_task_266(t) ==
    /\ PC(t) = "loop_task_266"
    /\ app_is_running(t, "loop_task_267", "loop_task_269")

\* Line 269: if (dify_app_is_running())
loop_task_269(t) ==
    /\ PC(t) = "loop_task_269"
    /\ app_is_running(t, "loop_task_270", "loop_task_276")

\* Line 259: batteryManager.update() (external); a callback of handleButtons
\* has returned, its history ends.
loop_task_259(t) ==
    /\ PC(t) = "loop_task_259"
    /\ Goto(t, "loop_task_261")
    /\ pre' = Rec("pre", pre, [pre EXCEPT ![t] = NoPre])
    /\ UNCHANGED <<envVars, lockVars, dataVars>>

loop_task(t) ==
    /\ t = "svc"
    /\ \/ loop_task_243(t)
       \/ handleButtons(t)
       \/ loop_task_259(t)
       \/ /\ PC(t) = "loop_task_261"
          \* wifi_handle() (external)
          /\ Goto(t, "loop_task_262")
          /\ OnlyStack
       \/ /\ PC(t) = "loop_task_262"
          \* websocket_handle() (external)
          /\ Goto(t, "loop_task_264")
          /\ OnlyStack
       \/ /\ PC(t) = "loop_task_264"
          \* audio_process() (external)
          /\ Goto(t, "loop_task_266")
          /\ OnlyStack
       \/ loop_task_266(t)
       \/ /\ PC(t) = "loop_task_267"
          \* smart_response_app_update() (external)
          /\ GotoWith(t, "loop_task_269", 0)
          /\ OnlyStack
       \/ loop_task_269(t)
       \/ /\ PC(t) = "loop_task_270"
          \* dify_app_update() (external)
          /\ GotoWith(t, "loop_task_276", 0)
          /\ OnlyStack
       \/ /\ PC(t) = "loop_task_276"
          \* vTaskDelay(10); the next cycle starts
          /\ Goto(t, "loop_task_243")
          /\ OnlyStack

(***************************************************************************)
(* i2c_bus_manager.cpp                                                     *)
(***************************************************************************)
\* i2c_new_master_bus(&cfg, &s_i2c_bus_handle): on ESP_OK it stores the handle
\* of a new bus in the slot, on an error it leaves the slot as it was.
i2c_new_master_bus(ok) ==
    /\ bus_attempts' = bus_attempts + 1
    /\ bus_made' = IF ok THEN bus_made + 1 ELSE bus_made
    /\ s_i2c_bus_handle' = IF ok THEN bus_made + 1 ELSE s_i2c_bus_handle

\* A getter that constructs the bus on every call.
get_i2c_bus_handle_10_always(t) ==
    /\ PC(t) = "get_i2c_bus_handle_10"
    /\ i2c_pre' = [i2c_pre EXCEPT !["get"] = I2cSnapshot]
    /\ Goto(t, "get_i2c_bus_handle_25")
    /\ UNCHANGED <<envVars, lockVars, bootVars, loadingVars, standbyVars, launcherVars,
                   active_screen, netVars, refreshVars, pre,
                   s_i2c_bus_handle, bus, i2c_ret, bus_attempts, bus_made, dev_adds>>

\* Line 10: if (s_i2c_bus_handle == nullptr)
get_i2c_bus_handle_10(t) ==
    /\ PC(t) = "get_i2c_bus_handle_10"
    /\ i2c_pre' = [i2c_pre EXCEPT !["get"] = I2cSnapshot]
    /\ Goto(t, IF s_i2c_bus_handle = 0 THEN "get_i2c_bus_handle_25"
                                       ELSE "get_i2c_bus_handle_32")
    /\ UNCHANGED <<envVars, lockVars, bootVars, loadingVars, standbyVars, launcherVars,
                   active_screen, netVars, refreshVars, pre,
                   s_i2c_bus_handle, bus, i2c_ret, bus_attempts, bus_made, dev_adds>>

get_i2c_bus_handle(t) ==
    \/ get_i2c_bus_handle_10(t)
    \/ /\ PC(t) = "get_i2c_bus_handle_25"
       \* lines 25..29: a failure is logged and nullptr returned
       /\ \E ok \in BOOLEAN :
            /\ i2c_new_master_bus(ok)
            /\ i2c_ret' = IF ok THEN i2c_ret ELSE 0
            /\ Goto(t, IF ok THEN "get_i2c_bus_handle_32" ELSE "get_i2c_bus_handle_ret")
       /\ UNCHANGED <<envVars, lockVars, bootVars, loadingVars, standbyVars, launcherVars,
                      active_screen, netVars, refreshVars, pre, bus, dev_adds, i2c_pre>>
    \/ /\ PC(t) = "get_i2c_bus_handle_32"
       \* line 32: return s_i2c_bus_handle
       /\ i2c_ret' = s_i2c_bus_handle
       /\ Goto(t, "get_i2c_bus_handle_ret")
       /\ UNCHANGED <<envVars, lockVars, bootVars, loadingVars, standbyVars, launcherVars,
                      active_screen, netVars, refreshVars, pre,
                      s_i2c_bus_handle, bus, bus_attempts, bus_made, dev_adds, i2c_pre>>
    \/ /\ PC(t) = "get_i2c_bus_handle_ret"
       /\ Return(t)
       /\ OnlyStack

\* A device creation that does not test the bus handle.
create_i2c_device_37_unchecked(t) ==
    /\ PC(t) = "create_i2c_device_37"
    /\ bus' = i2c_ret
    /\ Goto(t, "create_i2c_device_50")
    /\ UNCHANGED <<envVars, lockVars, bootVars, loadingVars, standbyVars, launcherVars,
                   active_screen, netVars, refreshVars, pre,
                   s_i2c_bus_handle, i2c_ret, bus_attempts, bus_made, dev_adds, i2c_pre>>

\* Lines 36..39: bus = (value returned by get_i2c_bus_handle);
\* if (bus == nullptr) return nullptr
create_i2c_device_37(t) ==
    /\ PC(t) = "create_i2c_device_37"
    /\ bus' = i2c_ret
    /\ i2c_ret' = IF i2c_ret = 0 THEN 0 ELSE i2c_ret
    /\ Goto(t, IF i2c_ret = 0 THEN "create_i2c_device_ret" ELSE "create_i2c_device_50")
    /\ UNCHANGED <<envVars, lockVars, bootVars, loadingVars, standbyVars, launcherVars,
                   active_screen, netVars, refreshVars, pre,
                   s_i2c_bus_handle, bus_attempts, bus_made, dev_adds, i2c_pre>>

\* The argument of a frame is the 7-bit device address.
create_i2c_device(t) ==
    \/ /\ PC(t) = "create_i2c_device_36"
       /\ i2c_pre' = [i2c_pre EXCEPT !["create"] = I2cSnapshot]
       /\ Call(t, "create_i2c_device_37", "get_i2c_bus_handle_10", 0)
       /\ UNCHANGED <<envVars, lockVars, bootVars, loadingVars, standbyVars, launcherVars,
                      active_screen, netVars, refreshVars, pre,
                      s_i2c_bus_handle, bus, i2c_ret, bus_attempts, bus_made, dev_adds>>
    \/ create_i2c_device_37(t)
    \/ /\ PC(t) = "create_i2c_device_50"
       \* lines 49..55: i2c_master_bus_add_device returns ESP_OK and a device
       \* handle, or an error (logged, nullptr returned)
       /\ dev_adds' = dev_adds + 1
       /\ \E ok \in BOOLEAN : i2c_ret' = IF ok THEN dev_adds + 1 ELSE 0
       /\ Goto(t, "create_i2c_device_ret")
       /\ UNCHANGED <<envVars, lockVars, bootVars, loadingVars, standbyVars, launcherVars,
                      active_screen, netVars, refreshVars, pre,
                      s_i2c_bus_handle, bus, bus_attempts, bus_made, i2c_pre>>
    \/ /\ PC(t) = "create_i2c_device_ret"
       /\ Return(t)
       /\ OnlyStack

(***************************************************************************)
(* The LVGL task (created by the BSP, main.cpp:69, 300): it takes the      *)
(* display lock, runs the timer handler, which delivers input events to    *)
(* the callbacks registered on the active screen, and releases the lock.   *)
(***************************************************************************)
lvgl_task(t) ==
    /\ t = "lvgl"
    /\ \/ /\ PC(t) = "lvgl_idle"
          \* no input event: redraw only
          /\ bsp_display_lock(t)
          /\ Goto(t, "lvgl_unlock")
          /\ OnlyStackLock
       \/ /\ PC(t) = "lvgl_idle"
          \* press on the standby screen (standby_screen.cpp:51..52)
          /\ bsp_display_lock(t)
          /\ active_screen = "Standby"
          /\ Enter(t, "lvgl_unlock", "standby_touch_event_cb_36", 0, 1)
          /\ UNCHANGED <<envVars, dataVars>>
       \/ /\ PC(t) = "lvgl_idle"
          \* click on an application button of the launcher (launcher.cpp:39..40)
          /\ bsp_display_lock(t)
          /\ active_screen = "Launcher"
          \* (the two buttons carry the AppType they were created with, lines 88..89)
          /\ \E a \in ButtonApps :
               Enter(t, "lvgl_unlock", "app_btn_event_cb_25", a, 1)
          /\ UNCHANGED <<envVars, dataVars>>
       \/ /\ PC(t) = "lvgl_unlock"
          \* (an event callback has returned, its history ends)
          /\ bsp_display_unlock(t)
          /\ Goto(t, "lvgl_idle")
          /\ pre' = Rec("pre", pre, [pre EXCEPT ![t] = NoPre])
          /\ UNCHANGED <<envVars, dataVars>>

\* The millisecond clock (esp_timer_get_time) advances.  The clock is read by
\* standby_screen_update only (line 120), so the advance is taken when a task is
\* about to read it: an advance at any other moment is observed the same.
Tick ==
    /\ now < MaxTicks * RefreshIntervalMs
    /\ \E t \in Tasks : PC(t) = "standby_screen_update_120"
    /\ now' = now + RefreshIntervalMs
    /\ UNCHANGED <<display, fatal, create_failures, record, appVars, lockVars, stack, dataVars, pre>>

(***************************************************************************)
(* The system                                                              *)
(***************************************************************************)
\* app_main (main.cpp:280..331), the task the firmware starts in.
app_main ==
    /\ ~fatal
    /\ \/ /\ am_pc = "app_main_282"
          \* lines 282..287: nvs_flash_init; ESP_ERROR_CHECK aborts the firmware
          \* when nvs_flash_erase or the second nvs_flash_init fails
          /\ \/ am_pc' = "app_main_303" /\ UNCHANGED fatal
             \/ fatal' = TRUE /\ UNCHANGED am_pc
          /\ UNCHANGED <<display, task_created>>
       \/ /\ am_pc = "app_main_303"
          \* disp = bsp_display_start(): the BSP starts the display and creates
          \* the LVGL task; nullptr is logged and app_main continues
          /\ display' \in BOOLEAN
          /\ task_created' \in IF display' THEN {{"lvgl"}} ELSE {{}, {"lvgl"}}
          /\ am_pc' = "app_main_316"
          /\ UNCHANGED fatal
       \/ /\ am_pc = "app_main_316"
          \* xTaskCreate(main_task, ...); app_main returns when it fails
          /\ \/ /\ task_created' = task_created \cup {"boot"}
                /\ am_pc' = "app_main_324"
             \/ /\ am_pc' = "app_main_ret"
                /\ UNCHANGED task_created
          /\ UNCHANGED <<display, fatal>>
       \/ /\ am_pc = "app_main_324"
          \* xTaskCreate(loop_task, ...); app_main returns
          /\ \/ task_created' = task_created \cup {"svc"}
             \/ UNCHANGED task_created
          /\ am_pc' = "app_main_ret"
          /\ UNCHANGED <<display, fatal>>
    /\ UNCHANGED <<now, create_failures, record, lockVars, stack, dataVars, pre>>

\* The state of the statics and of the tasks' stacks before a statement has run,
\* the boot task about to execute entry.
Statics(entry) ==
    /\ fatal = FALSE
    /\ pre = [t \in Tasks |-> NoPre]    /\ fatal = FALSE
    /\ pre = [t \in Tasks |-> NoPre]
    /\ now = 0
    /\ create_failures = 0
    /\ lock_owner = "none"
    /\ lock_depth = 0
    /\ stack = [t \in Tasks |->
                  <<Frame(CASE t = "boot" -> entry
                            [] t = "svc" -> "loop_task_243"
                            [] OTHER -> "lvgl_idle", 0, 0)>>]
    /\ mt_pc = 1
    /\ system_initialized = FALSE
    /\ button_callbacks = FALSE
    /\ loading_screen = FALSE
    /\ message_label = FALSE
    /\ progress_bar = FALSE
    /\ loading_visible = FALSE
    /\ message = 0
    /\ progress_value = 0
    /\ loading_constructions = 0
    /\ standby_screen = FALSE
    /\ standby_visible = FALSE
    /\ last_update = 0
    /\ standby_constructions = 0
    /\ battery_label = FALSE
    /\ battery_icon = FALSE
    /\ launcher_screen = FALSE
    /\ launcher_visible = FALSE
    /\ app_launch_callback = FALSE
    /\ launcher_constructions = 0
    /\ active_screen = "None"
    /\ cfg_ssid = FALSE
    /\ cfg_saved = {}
    /\ wifi_connected = FALSE
    /\ fallback_attempts = 0
    /\ softap = FALSE
    /\ s_i2c_bus_handle = 0
    /\ bus = 0
    /\ i2c_ret = 0
    /\ bus_attempts = 0
    /\ bus_made = 0
    /\ dev_adds = 0
    /\ i2c_pre = NoI2cPre
    /\ upd = NoUpd

\* The state when app_main is entered: no display, no task.
Boot ==
    /\ Statics("main_task")
    /\ display = FALSE
    /\ am_pc = "app_main_282"
    /\ task_created = {}

\* The state when app_main has returned, only the task that executes entry
\* created: a caller of the firmware's functions.
Start(entry) ==
    /\ Statics(entry)
    /\ display \in BOOLEAN            \* bsp_display_start() may fail (main.cpp:303..310)
    /\ am_pc = "app_main_ret"
    /\ task_created = {"boot"}

\* One statement of task t.
TaskStep(t) ==
    \/ main_task(t)
    \/ loop_task(t)
    \/ lvgl_task(t)
    \/ loading_screen_init(t)
    \/ loading_screen_show(t)
    \/ loading_screen_hide(t)
    \/ loading_screen_set_message(t)
    \/ loading_screen_set_progress(t)
    \/ standby_screen_init(t)
    \/ standby_screen_show(t)
    \/ standby_screen_hide(t)
    \/ standby_screen_update(t)
    \/ standby_touch_event_cb(t)
    \/ launcher_init(t)
    \/ launcher_show(t)
    \/ launcher_hide(t)
    \/ app_btn_event_cb(t)
    \/ main_app_launch_callback(t)
    \/ app_show(t)
    \/ pwr_button_callback(t)
    \/ boot_button_callback(t)

Next ==
    \/ app_main
    \/ \E t \in Tasks : TaskStep(t)
    \/ Tick

\* The firmware: preemptive scheduling, any task may run its next statement.
Init == Boot /\ record = {}
Spec == Init /\ [][Next]_vars

\* The firmware, with the history of the network statements of main_task
\* (lines 185..205) recorded.
InitNet == Boot /\ record = {"net"}
SpecNet == InitNet /\ [][Next]_vars

\* The firmware, with the history of the refreshes of standby_screen_update
\* recorded.
InitUpdate == Boot /\ record = {"upd"}
SpecUpdate == InitUpdate /\ [][Next]_vars

\* Scheduling of the liveness claims: app_main and every task that was created
\* and can run a statement are eventually run, and the boot task and the
\* service task, whose lock acquisitions compete with the render task's, are
\* eventually granted the lock (a FreeRTOS mutex wakes a waiting task when it
\* is released).  A task that was not created has no step to take.
SpecFair ==
    /\ Init
    /\ [][Next]_vars
    /\ WF_vars(app_main)
    /\ SF_vars(TaskStep("boot"))
    /\ SF_vars(TaskStep("svc"))
    /\ WF_vars(TaskStep("lvgl"))

(***************************************************************************)
(* The screen operations and the button callbacks as functions of the      *)
(* screen state: a caller applies any sequence of init, show and hide      *)
(* calls and of button callbacks, one call after another, starting with no *)
(* screen constructed, with or without a display; a hide may be followed   *)
(* at once by the same hide again.                                         *)
(***************************************************************************)
ShowOps == {"loading_screen_show_167", "standby_screen_show_96", "launcher_show_96"}
InitOps == {"loading_screen_init_31", "standby_screen_init_42", "launcher_init_61"}
HideOps == {"loading_screen_hide_197", "standby_screen_hide_111", "launcher_hide_108"}
\* main.cpp:38..54, the callbacks handleButtons calls.
ButtonOps == {"pwr_button_callback_39", "boot_button_callback_48"}

InitScreenOps == Start("ops") /\ record = {"pre"}

ops(t) ==
    /\ t = "boot"
    /\ \/ /\ PC(t) = "ops"
          /\ \E f \in ShowOps \cup InitOps \cup HideOps \cup ButtonOps :
               Enter(t, "ops_done", f, 0, 0)
          /\ UNCHANGED <<envVars, lockVars, dataVars>>
       \/ /\ PC(t) = "ops"
          \* the first hide of two in succession
          /\ \E h \in HideOps :
               stack' = [stack EXCEPT ![t] = <<Frame(h, 0, 0), Frame("ops_again", 0, h)>>]
          /\ pre' = [pre EXCEPT ![t] = Snapshot]
          /\ UNCHANGED <<envVars, lockVars, dataVars>>
       \/ /\ PC(t) = "ops_again"
          \* the second hide: the history records the state the first one left
          /\ Enter(t, "ops_twice", Arg(t), 0, 0)
          /\ UNCHANGED <<envVars, lockVars, dataVars>>
       \/ /\ PC(t) \in {"ops_done", "ops_twice"}
          /\ Goto(t, "ops")
          /\ pre' = [pre EXCEPT ![t] = NoPre]
          /\ UNCHANGED <<envVars, lockVars, dataVars>>

ScreenOpStep(t) ==
    \/ ops(t)
    \/ loading_screen_init(t)
    \/ loading_screen_show(t)
    \/ loading_screen_hide(t)
    \/ loading_screen_set_message(t)
    \/ loading_screen_set_progress(t)
    \/ standby_screen_init(t)
    \/ standby_screen_show(t)
    \/ standby_screen_hide(t)
    \/ standby_screen_update(t)
    \/ launcher_init(t)
    \/ launcher_show(t)
    \/ launcher_hide(t)
    \/ pwr_button_callback(t)
    \/ boot_button_callback(t)

NextScreenOps ==
    \/ ScreenOpStep("boot")
    \/ Tick

SpecScreenOps == InitScreenOps /\ [][NextScreenOps]_vars

(***************************************************************************)
(* loading_screen.cpp as functions of any sequence of calls: a caller      *)
(* calls loading_screen_init, and loading_screen_set_progress with any     *)
(* percent in -MaxOver .. 100 + MaxOver, one call after another.           *)
(***************************************************************************)
MaxOver == 50
Percents == (0 - MaxOver)..(100 + MaxOver)

InitSetProgress == Start("progress") /\ record = {}

progress(t) ==
    /\ t = "boot"
    /\ PC(t) = "progress"
    /\ \/ Call(t, "progress", "loading_screen_init_31", 0)
       \/ \E p \in Percents : Call(t, "progress", "loading_screen_set_progress_217", p)
    /\ OnlyStack

SetProgressStep(t) ==
    \/ progress(t)
    \/ loading_screen_init(t)
    \/ loading_screen_set_progress(t)

NextSetProgress == SetProgressStep("boot")

SpecSetProgress == InitSetProgress /\ [][NextSetProgress]_vars

(***************************************************************************)
(* i2c_bus_manager.cpp as functions of any sequence of calls: a caller     *)
(* (the drivers of the RTC, the motion sensor, ...) calls                  *)
(* get_i2c_bus_handle or create_i2c_device(addr), one call after another.  *)
(***************************************************************************)
MaxBusAttempts == 3
MaxDevAdds == 2
MaxAddr == 1
I2cAddrs == 0..MaxAddr

InitI2c == Start("i2c") /\ record = {}

i2c(t) ==
    /\ t = "boot"
    /\ PC(t) = "i2c"
    /\ bus_attempts < MaxBusAttempts
    /\ dev_adds < MaxDevAdds
    /\ \/ Call(t, "i2c", "get_i2c_bus_handle_10", 0)
       \/ \E addr \in I2cAddrs : Call(t, "i2c", "create_i2c_device_36", addr)
    /\ OnlyStack

I2cStep(t) ==
    \/ i2c(t)
    \/ get_i2c_bus_handle(t)
    \/ create_i2c_device(t)

NextI2c == I2cStep("boot")

SpecI2c == InitI2c /\ [][NextI2c]_vars

TypeOK ==
    /\ lock_owner \in Tasks \cup {"none"}
    /\ lock_depth \in 0..4
    /\ (lock_owner = "none") <=> (lock_depth = 0)
    /\ active_screen \in Screens
    /\ progress_value \in 0..100
    /\ mt_pc \in 1..Len(MainProg)

(***************************************************************************)
(* Properties                                                              *)
(***************************************************************************)
VisibleCount ==
    (IF standby_visible THEN 1 ELSE 0) + (IF loading_visible THEN 1 ELSE 0)
      + (IF launcher_visible THEN 1 ELSE 0)

ShowReturns == {"standby_screen_show_ret", "loading_screen_show_ret",
                "launcher_show_ret"}

\* C1: in every reachable state at most one of the visibility flags of Standby,
\* Loading and Launcher is true, and when a show call (standby_screen_show,
\* loading_screen_show, launcher_show) returns exactly one of them is true.
C1_OneScreenVisible ==
    /\ VisibleCount <= 1
    /\ \A t \in Tasks : Label(t) \in ShowReturns => VisibleCount = 1

\* A callback of handleButtons, called by the caller of SpecScreenOps, returns.
Returned(cb) == Label("boot") = cb /\ Len(stack["boot"]) = 2

\* C2: Scenario A: when Standby is visible and Launcher is not, a PWR press
\* (pwr_button_callback) leaves Launcher visible and Standby not visible.
C2_WakeFromStandby ==
    (/\ Returned("pwr_button_callback_ret")
     /\ pre["boot"].sv
     /\ ~pre["boot"].lv)
      => (launcher_visible /\ ~standby_visible)

\* C3: the PWR button toggles: a PWR press while Launcher is the active screen
\* (however it was reached) ends with Launcher not visible, Standby visible and
\* Standby the screen loaded on the render surface.
C3_WakeToggles ==
    (/\ Returned("pwr_button_callback_ret")
     /\ pre["boot"].act = "Launcher")
      => (~launcher_visible /\ standby_visible /\ active_screen = "Standby")

\* C4: Scenario B: a BOOT press (boot_button_callback) that finds Launcher
\* visible leaves Launcher not visible and Standby visible; one that finds
\* Launcher not visible and Standby visible leaves Launcher visible.
C4_BootButton ==
    Returned("boot_button_callback_ret")
      => /\ pre["boot"].lv => (~launcher_visible /\ standby_visible)
         /\ (~pre["boot"].lv /\ pre["boot"].sv) => launcher_visible

\* A BOOT press that found Launcher visible and on screen has returned.
C4_Witness ==
    /\ Returned("boot_button_callback_ret")
    /\ pre["boot"].lv
    /\ pre["boot"].act = "Launcher"
    /\ ~launcher_visible
    /\ standby_visible
    /\ active_screen = "Standby"

\* C5: Scenario C: when the click handler of the Launcher icon of a registered
\* application X returns, Launcher is hidden and Application(X) is the active
\* screen (Launcher is hidden first, the dispatch shows Application(X) last).
C5_ClickLeavesApp ==
    (/\ Label("lvgl") = "app_btn_event_cb_ret"
     /\ Arg("lvgl") \in RegisteredApps)
      => (~launcher_visible /\ active_screen = AppScreen(Arg("lvgl")))

\* The statements of the click handler (launcher.cpp:18..31) and of the dispatch
\* (main.cpp:55..67).
ClickHandler == {"app_btn_event_cb_25", "app_btn_event_cb_29", "app_btn_event_cb_ret"}
Dispatch == {"app_launch_callback_57", "app_launch_callback_ret"}
\* The launch requests in progress: the frames of the render task inside the
\* click handler or the dispatch.
LaunchRequests ==
    {i \in 1..Len(stack["lvgl"]) : stack["lvgl"][i].pc \in ClickHandler \cup Dispatch}
\* The render task executes a statement.
LvglStep == stack'["lvgl"] # stack["lvgl"]

C7_NoNestedAcquisition == \A t \in Tasks : Depth(t) <= 1

ScreenOpReturns ==
    {"loading_screen_init_ret", "loading_screen_show_ret", "loading_screen_hide_ret",
     "loading_screen_set_message_ret", "loading_screen_set_progress_ret",
     "standby_screen_init_ret", "standby_screen_show_ret", "standby_screen_hide_ret",
     "standby_screen_update_ret",
     "launcher_init_ret", "launcher_show_ret", "launcher_hide_ret"}

\* C8: when a screen operation (init, show, hide, set_message, set_progress,
\* update) returns, on any exit path, the calling task holds the display lock
\* exactly as many times as when the operation was entered.
C8_LockBalanced ==
    \A t \in Tasks : Label(t) \in ScreenOpReturns => Depth(t) = Top(t).base

\* loading_screen_init returns through the failure exit of a widget creation.
C8_Witness ==
    /\ Label("boot") = "loading_screen_init_ret"
    /\ loading_screen
    /\ ~progress_bar
    /\ Depth("boot") = 0

\* The statements that mutate the render surface: widget creation, lv_screen_load,
\* lv_label_set_text, lv_bar_set_value.
RenderMutations ==
    {"loading_screen_init_44", "loading_screen_show_184",
     "loading_screen_set_message_211", "loading_screen_set_progress_220",
     "standby_screen_init_47", "standby_screen_init_49", "standby_screen_show_101",
     "standby_screen_update_127", "launcher_init_66", "launcher_init_68",
     "launcher_show_101"}

\* C9: in every interleaving of the three tasks, a task that is about to mutate
\* the render surface holds the display lock.
C9_MutationUnderLock ==
    \A t \in Tasks : Label(t) \in RenderMutations => lock_owner = t

\* The service task loads the launcher screen while the render task waits.
C9_Witness ==
    /\ Label("svc") = "launcher_show_101"
    /\ lock_owner = "svc"
    /\ Label("lvgl") = "lvgl_idle"

\* C10: while the boot task has not set the readiness flag, the service task does
\* no work: it is at the flag check of its loop and inside no callback.
C10_NoWorkBeforeReady ==
    ~system_initialized => (Label("svc") = "loop_task_243" /\ ~Busy("svc"))

\* The service task polls the flag while boot, past the registration of the
\* button callbacks, has not yet signalled readiness.
C10_Witness ==
    /\ ~system_initialized
    /\ button_callbacks
    /\ Label("svc") = "loop_task_243"

\* C11: at boot completion progress is forced to 100, then the readiness flag is
\* set, and only afterwards Loading is hidden and Standby is shown: whenever
\* main_task is past the hide of line 218, or Standby is shown, the flag is set.
C11_ReadyBeforeStandby ==
    /\ (system_initialized /\ progress_bar) => progress_value = 100
    /\ (Label("boot") = "main_task" /\ Ins.line > 218) => system_initialized
    /\ (standby_visible \/ active_screen = "Standby") => system_initialized

\* C12: for every combination of outcomes of the subsystem initialisations and
\* of the network attempts, the boot task, once created, eventually sets the
\* readiness flag; from then on it is in its idle loop forever.
C12_BootReachesReadiness ==
    /\ []("boot" \in task_created => <>system_initialized)
    /\ [](system_initialized =>
            (Label("boot") = "main_task" /\ ~Busy("boot") /\ Ins.op = "idle"))

\* C13: the progress value never decreases, always lies in 0..100, is 100 when
\* the boot has completed, and only a step of the boot task changes it.
C13_ProgressMonotone ==
    /\ [](progress_value \in 0..100)
    /\ []((system_initialized /\ progress_bar) => progress_value = 100)
    /\ [][/\ progress_value' >= progress_value
          /\ progress_value' # progress_value => stack'["boot"] # stack["boot"]]_vars

\* The boot has reported 100 and the other tasks are at work.
C13_Witness ==
    /\ progress_value = 100
    /\ system_initialized
    /\ Busy("svc")
    /\ lock_owner = "lvgl"

\* C14: loading_screen_set_progress(p) leaves the progress bar (when its creation
\* succeeded: there is no value to store otherwise) at 0 if p < 0, at 100 if
\* p > 100 and at p otherwise.
C14_ProgressClamped ==
    (Label("boot") = "loading_screen_set_progress_ret" /\ progress_bar)
      => progress_value = (IF Arg("boot") < 0 THEN 0
                           ELSE IF Arg("boot") > 100 THEN 100 ELSE Arg("boot"))

\* loading_screen_set_progress(150) has returned.
C14_Witness ==
    /\ Label("boot") = "loading_screen_set_progress_ret"
    /\ Arg("boot") = 150
    /\ progress_bar
    /\ progress_value = 100

\* C15: in any sequence of init and show calls made one after another, the
\* widget tree of a variant is constructed at most once, and it has been
\* constructed exactly once when a show of the variant has returned.
C15_ConstructedOnce ==
    /\ standby_constructions <= 1
    /\ launcher_constructions <= 1
    /\ loading_constructions <= 1
    /\ Label("boot") = "standby_screen_show_ret" => standby_constructions = 1
    /\ Label("boot") = "launcher_show_ret" => launcher_constructions = 1
    /\ Label("boot") = "loading_screen_show_ret" => loading_constructions = 1

\* C16: hide is idempotent: the second of two hide calls in succession leaves
\* the visibility flags, the constructed flags and the active screen as the
\* first one left them.
C16_HideIdempotent ==
    Label("boot") = "ops_twice" => Snapshot = pre["boot"]

HideReturns == {"standby_screen_hide_ret", "loading_screen_hide_ret", "launcher_hide_ret"}

\* C17: a hide called by the caller leaves the variant not visible and every
\* variant's constructed status unchanged, and when the variant was already
\* hidden it changes no visibility flag and not the active screen.
C17_HideOnlyHides ==
    (Label("boot") \in HideReturns /\ Len(stack["boot"]) = 2)
      => /\ standby_screen = pre["boot"].sc
         /\ launcher_screen = pre["boot"].lc
         /\ loading_screen = pre["boot"].ldc
         /\ Label("boot") = "standby_screen_hide_ret"
              => (~standby_visible /\ (~pre["boot"].sv => Snapshot = pre["boot"]))
         /\ Label("boot") = "loading_screen_hide_ret"
              => (~loading_visible /\ (~pre["boot"].ldv => Snapshot = pre["boot"]))
         /\ Label("boot") = "launcher_hide_ret"
              => (~launcher_visible /\ (~pre["boot"].lv => Snapshot = pre["boot"]))

\* C18: without a display every init and show aborts: no panic, no variant is
\* constructed, no visibility flag is set and no screen is loaded.
C18_NoDisplayAborts ==
    ~display
      => /\ ~fatal
         /\ ~standby_screen /\ ~launcher_screen /\ ~loading_screen
         /\ standby_constructions = 0
         /\ launcher_constructions = 0
         /\ loading_constructions = 0
         /\ VisibleCount = 0
         /\ active_screen = "None"

\* The statement loop_task itself is at (below the frames of a callback), and
\* the value its frame keeps.
SvcLoop == stack["svc"][Len(stack["svc"])].pc
SvcValue == stack["svc"][Len(stack["svc"])].arg

\* The update statements of loop_task, the is_running test that guards each and
\* the statement after the if.
AppUpdates ==
    {[test |-> "loop_task_266", update |-> "loop_task_267", after |-> "loop_task_269"],
     [test |-> "loop_task_269", update |-> "loop_task_270", after |-> "loop_task_276"]}

\* C19: in every cycle of loop_task an application's update runs only when its
\* is_running returned true in that cycle, the update runs when it returned
\* true, and it runs once: loop_task is at an update statement only with the
\* value true, it reaches the update from the application's test only, exactly
\* when the test returned true, and it leaves the update for the statement
\* after the if.
C19_UpdateOnlyIfRunning ==
    /\ [](\A u \in AppUpdates : SvcLoop = u.update => SvcValue = 1)
    /\ [][\A u \in AppUpdates :
            /\ (SvcLoop = u.test /\ SvcLoop' # SvcLoop)
                 => /\ SvcLoop' \in {u.update, u.after}
                    /\ (SvcLoop' = u.update) <=> (SvcValue' = 1)
            /\ (SvcLoop' = u.update /\ SvcLoop # SvcLoop') => SvcLoop = u.test
            /\ (SvcLoop = u.update /\ SvcLoop' # SvcLoop) => SvcLoop' = u.after]_vars

\* The second application is about to be updated in a cycle in which the first
\* reported not running, while the render task delivers a touch.
C19_Witness ==
    /\ SvcLoop = "loop_task_270"
    /\ SvcValue = 1
    /\ Busy("lvgl")

\* C20: at boot completion some connection attempt succeeded, or the fallback
\* network was attempted and access-point mode was started.
C20_FallbackOrAccessPoint ==
    system_initialized => (wifi_connected \/ (fallback_attempts >= 1 /\ softap))

\* The statement of lines 185..206 has been executed.
WifiDone == mt_pc >= At(207)

\* C21: with no persisted SSID the fallback network is attempted exactly once;
\* if it succeeds both keys are written and access-point mode is not started,
\* if it fails access-point mode is started and nothing is written; with a
\* persisted SSID the boot never writes configuration.
C21_FallbackOnceAndSave ==
    /\ fallback_attempts <= 1
    /\ cfg_ssid => cfg_saved = {}
    /\ cfg_saved # {} => (wifi_connected /\ fallback_attempts = 1 /\ ~softap)
    /\ softap => (~wifi_connected /\ fallback_attempts = 1 /\ cfg_saved = {})
    /\ (~cfg_ssid /\ WifiDone)
         => /\ fallback_attempts = 1
            /\ wifi_connected => (cfg_saved = WifiKeys /\ ~softap)
            /\ ~wifi_connected => (cfg_saved = {} /\ softap)

\* The boot without persisted SSID joined the fallback network and saved it.
C21_Witness ==
    /\ ~cfg_ssid
    /\ WifiDone
    /\ wifi_connected
    /\ cfg_saved = WifiKeys
    /\ fallback_attempts = 1

\* C22: the bus is constructed at most once: once the slot holds a handle it
\* keeps that handle, and a get_i2c_bus_handle entered with the slot filled
\* returns that handle without calling i2c_new_master_bus.
C22_BusConstructedOnce ==
    /\ [](bus_made <= 1)
    /\ []((Label("boot") = "get_i2c_bus_handle_ret" /\ i2c_pre["get"].slot # 0)
            => /\ i2c_ret = i2c_pre["get"].slot
               /\ s_i2c_bus_handle = i2c_pre["get"].slot
               /\ bus_attempts = i2c_pre["get"].attempts)
    /\ [][s_i2c_bus_handle # 0 => s_i2c_bus_handle' = s_i2c_bus_handle]_vars

\* A get_i2c_bus_handle returns the handle that an earlier call constructed,
\* after a construction that had failed.
C22_Witness ==
    /\ Label("boot") = "get_i2c_bus_handle_ret"
    /\ i2c_pre["get"].slot = 1
    /\ i2c_ret = 1
    /\ bus_attempts = 2
    /\ bus_made = 1

\* C26: get_i2c_bus_handle returns the slot, which a failed construction
\* leaves empty; entered with the slot empty it calls i2c_new_master_bus exactly
\* once; create_i2c_device with an absent bus handle returns an absent device
\* handle and does not call i2c_master_bus_add_device.
C26_FailedConstructionRetried ==
    /\ Label("boot") = "get_i2c_bus_handle_ret"
         => /\ i2c_ret = s_i2c_bus_handle
            /\ i2c_pre["get"].slot = 0 => bus_attempts = i2c_pre["get"].attempts + 1
    /\ Label("boot") = "create_i2c_device_ret"
         => /\ bus = 0 => (i2c_ret = 0 /\ dev_adds = i2c_pre["create"].adds)
            /\ bus # 0 => dev_adds = i2c_pre["create"].adds + 1

\* A create_i2c_device returns absent because the construction failed again,
\* in a call made after an earlier construction had failed.
C26_Witness ==
    /\ Label("boot") = "create_i2c_device_ret"
    /\ bus = 0
    /\ i2c_ret = 0
    /\ s_i2c_bus_handle = 0
    /\ bus_attempts = 2
    /\ i2c_pre["create"].attempts = 1

\* C23: while a task holds the display lock, no other task is in a show
\* function past the release of the lock it took for lv_screen_load with
\* the visibility flag of the screen it loaded still false.
C23_VisibleBeforeUnlock ==
    \A u \in Tasks : \A t \in Tasks \ {u} :
        lock_owner = u
          => /\ Label(t) = "launcher_show_103" => launcher_visible
             /\ Label(t) = "standby_screen_show_103" => standby_visible
             /\ Label(t) = "loading_screen_show_ret" /\ active_screen = "Loading"
                  => loading_visible

\* C24: when loading_screen_init returns and the construction is not complete
\* (the progress bar, the last widget, does not exist), nothing of the widget
\* tree exists and the Loading variant is unconstructed.
C24_FailedInitLeavesNothing ==
    \A t \in Tasks :
        (Label(t) = "loading_screen_init_ret" /\ ~progress_bar)
          => (~loading_screen /\ ~message_label)

\* C25: a standby_screen_update entered with Standby not visible or not
\* constructed returns at once and leaves last_update as it was; and two
\* refreshes with no standby_screen_show between them are at least
\* RefreshIntervalMs apart.
C25_UpdateThrottled ==
    [][\A t \in Tasks :
         /\ (/\ Label(t) = "standby_screen_update_116"
             /\ stack'[t] # stack[t]
             /\ ~standby_visible \/ ~standby_screen)
              => (/\ Label(t)' = "standby_screen_update_ret"
                  /\ last_update' = last_update
                  /\ upd' = upd)
         /\ (/\ Label(t) = "standby_screen_update_127"
             /\ Label(t)' = "standby_screen_update_187"
             /\ upd >= 0)
              => upd' - upd >= RefreshIntervalMs]_vars

\* The statement of loop_task the service task is at, or will return to.
\* The statements of a loop_task cycle and the statements that may follow each
\* in source order (an update is skipped when is_running returned false).
CycleOrder ==
    [l \in {"loop_task_243", "loop_task_254", "loop_task_259", "loop_task_261",
            "loop_task_262", "loop_task_264", "loop_task_266", "loop_task_267",
            "loop_task_269", "loop_task_270", "loop_task_276"} |->
       CASE l = "loop_task_243" -> {"loop_task_254"}
         [] l = "loop_task_254" -> {"loop_task_259"}
         [] l = "loop_task_259" -> {"loop_task_261"}
         [] l = "loop_task_261" -> {"loop_task_262"}
         [] l = "loop_task_262" -> {"loop_task_264"}
         [] l = "loop_task_264" -> {"loop_task_266"}
         [] l = "loop_task_266" -> {"loop_task_267", "loop_task_269"}
         [] l = "loop_task_267" -> {"loop_task_269"}
         [] l = "loop_task_269" -> {"loop_task_270", "loop_task_276"}
         [] l = "loop_task_270" -> {"loop_task_276"}
         [] OTHER -> {"loop_task_243"}]

\* C27: provided the display lock is always eventually released, once the
\* readiness flag is set the service task polls the buttons infinitely often,
\* the service task is outside a button callback infinitely often (every
\* callback returns to the loop), and the statements of a cycle run in the
\* order buttons, battery, network, websocket, audio, application updates.
C27_ServiceLoopLive ==
    /\ []<>(lock_owner = "none")
         => /\ []<>(system_initialized => Label("svc") = "loop_task_254")
            /\ []<>(~Busy("svc"))
    /\ [][SvcLoop' # SvcLoop
            => /\ SvcLoop \in DOMAIN CycleOrder
               /\ SvcLoop' \in CycleOrder[SvcLoop]]_vars

\* C28: the Launcher widget tree is constructed at most once, however
\* launcher_show of the service task and of the render task interleave.
C28_LauncherConstructedOnce == launcher_constructions <= 1

\* C29: whenever the Launcher is constructed the launch callback has been
\* registered, and app_btn_event_cb never tests a null callback.
C29_CallbackBeforeClick ==
    /\ launcher_screen => app_launch_callback
    /\ \A t \in Tasks : Label(t) = "app_btn_event_cb_25" => app_launch_callback

\* A click on a Launcher icon is delivered; the callback is registered.
C29_Witness ==
    /\ Label("lvgl") = "app_btn_event_cb_25"
    /\ launcher_screen
    /\ app_launch_callback
    /\ system_initialized

============================================================================
